---- MODULE Spec2Model ----
(***************************************************************************)
(* Blog dashboard: the listing view (src/app/dashboard/blogs/page.tsx,     *)
(* BlogsPage) and the edit form (EditBlogPage).  One view is mounted at a  *)
(* time; a successful form submission routes to the listing view.          *)
(*                                                                         *)
(* Strings the code inspects character by character (title, slug) are      *)
(* sequences of one-character strings.  A blog of the held collection is   *)
(* its _id, the only field the handlers read.                              *)
(***************************************************************************)
EXTENDS Naturals, Sequences, FiniteSets

VARIABLES
    page,             \* "list" | "edit": the mounted view
    ev,               \* the handler that ran last, with its inputs
    toast,            \* the notification raised by that handler, or NoToast
    \* ---- BlogsPage state (useState hooks, page.tsx 58-63)
    blogs,            \* held collection, a sequence of blog ids
    loading,
    searchTerm,
    filterStatus,
    deleteDialogOpen,
    blogToDelete,
    loads,            \* GET /api/blogs requests in flight, in order of issue
    deletes,          \* DELETE /api/blogs/{id} requests in flight
    overtaken,        \* history: how many loads in flight (the first ones of loads)
                      \* were issued before a load that has already been answered
    \* ---- EditBlogPage state (useState + useForm, part_000 42-54)
    isSubmitting,
    title,
    slug,
    excerpt,
    content,
    coverImage,
    status,
    slugTimers,       \* pending setTimeout(generateSlug, 300) callbacks
    puts,             \* PUT /api/blogs requests in flight (their bodies)
    \* ---- history of the slug field, read by the slug properties only
    slugTyped,        \* slug holds a value the user typed that differed from the derived one
    everDiverged      \* the user has at some time typed such a slug

listVars == <<blogs, loading, searchTerm, filterStatus, deleteDialogOpen,
              blogToDelete, loads, deletes, overtaken>>
formVars == <<isSubmitting, title, slug, excerpt, content, coverImage, status,
              slugTimers, puts, slugTyped, everDiverged>>
vars == <<page, ev, toast, listVars, formVars>>

(***************************************************************************)
(* Bounds of the model.                                                    *)
(***************************************************************************)
NumIds == 2        \* blog ids the backend may ever return
MaxRequests == 2   \* listing requests (loads and deletes) in flight together
MaxTimers == 2     \* pending slug timers
MaxPuts == 2       \* submissions in flight together (the code allows one)

Null == "null"
NoToast == "none"

AllIds == <<"b1", "b2", "b3", "b4">>
Ids == {AllIds[i] : i \in 1..NumIds}

Range(s) == {s[i] : i \in 1..Len(s)}

\* What a GET /api/blogs?... response may carry: any selection of the backend's
\* blogs, in the backend's order.
BlogLists ==
    {[j \in 1..Len(p) |-> AllIds[p[j]]] :
        p \in {q \in UNION {[1..n -> 1..NumIds] : n \in 0..NumIds} :
                  \A j, k \in 1..Len(q) : j < k => q[j] < q[k]}}

SearchInputs == {"", "q"}
StatusMenu == {Null, "published", "draft"}

RemoveAt(s, i) == [j \in 1..(Len(s) - 1) |-> IF j < i THEN s[j] ELSE s[j + 1]]

(***************************************************************************)
(* BlogsPage                                                               *)
(***************************************************************************)

\* useState initial values, page.tsx 58-63.
ListInitial ==
    /\ blogs = <<>>
    /\ loading = TRUE
    /\ searchTerm = ""
    /\ filterStatus = Null
    /\ deleteDialogOpen = FALSE
    /\ blogToDelete = Null
    /\ deletes = <<>>
    /\ overtaken = 0

\* The query of one fetchBlogs call: search and status are appended when truthy.
Query(term, st) == [search |-> term, status |-> st]

\* The mount effect has issued the first load.
ListMounted ==
    /\ ListInitial
    /\ loads = <<Query("", Null)>>

ListUnmounted ==
    /\ ListInitial
    /\ loads = <<>>

\* BlogsPage mounts: fresh state, and the mount effect issues the first load.
MountList ==
    /\ blogs' = <<>>
    /\ loading' = TRUE
    /\ searchTerm' = ""
    /\ filterStatus' = Null
    /\ deleteDialogOpen' = FALSE
    /\ blogToDelete' = Null
    /\ deletes' = <<>>
    /\ overtaken' = 0
    /\ loads' = <<Query("", Null)>>

\* fetchBlogs up to its await: setLoading(true) and the GET request.
FetchIssued(term, st) ==
    /\ loading' = TRUE
    /\ loads' = Append(loads, Query(term, st))

\* SetSearchTerm had the effect depended on [filterStatus, searchTerm].
SetSearchTermRefetches(term) ==
    /\ page = "list"
    /\ ~deleteDialogOpen
    /\ term # searchTerm
    /\ searchTerm' = term
    /\ Len(loads) + Len(deletes) < MaxRequests
    /\ FetchIssued(term, filterStatus)
    /\ ev' = [op |-> "setSearchTerm", arg |-> term]
    /\ toast' = NoToast
    /\ UNCHANGED <<page, blogs, filterStatus, deleteDialogOpen, blogToDelete,
                   deletes, overtaken, formVars>>

\* onChange of the search Input: setSearchTerm only (the effect does not
\* depend on searchTerm).
SetSearchTerm(term) ==
    /\ page = "list"
    /\ ~deleteDialogOpen
    /\ term # searchTerm
    /\ searchTerm' = term
    /\ ev' = [op |-> "setSearchTerm", arg |-> term]
    /\ toast' = NoToast
    /\ UNCHANGED <<page, blogs, loading, filterStatus, deleteDialogOpen,
                   blogToDelete, loads, deletes, overtaken, formVars>>

\* The search button: handleSearch -> fetchBlogs with the rendered state.
HandleSearch ==
    /\ page = "list"
    /\ ~deleteDialogOpen
    /\ Len(loads) + Len(deletes) < MaxRequests
    /\ FetchIssued(searchTerm, filterStatus)
    /\ ev' = [op |-> "handleSearch", arg |-> searchTerm]
    /\ toast' = NoToast
    /\ UNCHANGED <<page, blogs, searchTerm, filterStatus, deleteDialogOpen,
                   blogToDelete, deletes, overtaken, formVars>>

\* A status menu item: setFilterStatus(st).  Choosing the value already held
\* changes no state (no render, no effect); a new value is rendered and the
\* [filterStatus] effect runs fetchBlogs.
SetFilterStatus(st) ==
    /\ page = "list"
    /\ ~deleteDialogOpen
    /\ st # filterStatus
    /\ filterStatus' = st
    /\ Len(loads) + Len(deletes) < MaxRequests
    /\ FetchIssued(searchTerm, st)
    /\ ev' = [op |-> "setFilterStatus", arg |-> st]
    /\ toast' = NoToast
    /\ UNCHANGED <<page, blogs, searchTerm, deleteDialogOpen, blogToDelete,
                   deletes, overtaken, formVars>>

\* ClearFilters had it called fetchBlogs itself.
ClearFiltersRefetches ==
    /\ page = "list"
    /\ ~deleteDialogOpen
    /\ ~(searchTerm = "" /\ filterStatus = Null)
    /\ searchTerm' = ""
    /\ filterStatus' = Null
    /\ Len(loads) + Len(deletes) < MaxRequests
    /\ FetchIssued("", Null)
    /\ ev' = [op |-> "clearFilters", arg |-> Null]
    /\ toast' = NoToast
    /\ UNCHANGED <<page, blogs, deleteDialogOpen, blogToDelete, deletes, overtaken, formVars>>

\* The clear button (disabled when neither filter is set): both setters, one
\* render; the effect runs only when filterStatus changed.
ClearFilters ==
    /\ page = "list"
    /\ ~deleteDialogOpen
    /\ ~(searchTerm = "" /\ filterStatus = Null)
    /\ searchTerm' = ""
    /\ filterStatus' = Null
    /\ IF filterStatus # Null
         THEN /\ Len(loads) + Len(deletes) < MaxRequests
              /\ FetchIssued("", Null)
         ELSE UNCHANGED <<loading, loads>>
    /\ ev' = [op |-> "clearFilters", arg |-> Null]
    /\ toast' = NoToast
    /\ UNCHANGED <<page, blogs, deleteDialogOpen, blogToDelete, deletes, overtaken, formVars>>

\* History kept when load i is answered: the loads issued before it that are
\* still in flight have been overtaken.
Answered(i) == overtaken' = IF i <= overtaken THEN overtaken - 1 ELSE i - 1

\* FetchResponse had fetchBlogs dropped the response of a load that a later
\* load has already answered.
FetchResponseLatestOnly(i, ok, resp) ==
    /\ page = "list"
    /\ i \in 1..Len(loads)
    /\ loads' = RemoveAt(loads, i)
    /\ blogs' = IF ok /\ i > overtaken THEN resp ELSE blogs
    /\ loading' = FALSE
    /\ toast' = IF ok THEN NoToast ELSE "Failed to load blogs. Please try again."
    /\ Answered(i)
    /\ ev' = [op |-> IF ok THEN "fetchOk" ELSE "fetchFailed",
              arg |-> IF ok THEN resp ELSE <<>>,
              query |-> loads[i], late |-> (i <= overtaken)]
    /\ UNCHANGED <<page, searchTerm, filterStatus, deleteDialogOpen, blogToDelete,
                   deletes, formVars>>

\* FetchResponse had setLoading(false) closed the try block instead of a finally.
FetchResponseNoFinally(i, ok, resp) ==
    /\ page = "list"
    /\ i \in 1..Len(loads)
    /\ loads' = RemoveAt(loads, i)
    /\ blogs' = IF ok THEN resp ELSE blogs
    /\ loading' = IF ok THEN FALSE ELSE loading
    /\ toast' = IF ok THEN NoToast ELSE "Failed to load blogs. Please try again."
    /\ Answered(i)
    /\ ev' = [op |-> IF ok THEN "fetchOk" ELSE "fetchFailed",
              arg |-> IF ok THEN resp ELSE <<>>,
              query |-> loads[i], late |-> (i <= overtaken)]
    /\ UNCHANGED <<page, searchTerm, filterStatus, deleteDialogOpen, blogToDelete,
                   deletes, formVars>>

\* The response of load i arrives: setBlogs(data.blogs) on a 2xx response, the
\* error toast otherwise; setLoading(false) in the finally block.
FetchResponse(i, ok, resp) ==
    /\ page = "list"
    /\ i \in 1..Len(loads)
    /\ loads' = RemoveAt(loads, i)
    /\ blogs' = IF ok THEN resp ELSE blogs
    /\ loading' = FALSE
    /\ toast' = IF ok THEN NoToast ELSE "Failed to load blogs. Please try again."
    /\ Answered(i)
    /\ ev' = [op |-> IF ok THEN "fetchOk" ELSE "fetchFailed",
              arg |-> IF ok THEN resp ELSE <<>>,
              query |-> loads[i], late |-> (i <= overtaken)]
    /\ UNCHANGED <<page, searchTerm, filterStatus, deleteDialogOpen, blogToDelete,
                   deletes, formVars>>

\* The Delete item of a row menu (rows are rendered when not loading).
ConfirmDelete(id) ==
    /\ page = "list"
    /\ ~deleteDialogOpen
    /\ ~loading
    /\ id \in Range(blogs)
    /\ blogToDelete' = id
    /\ deleteDialogOpen' = TRUE
    /\ ev' = [op |-> "confirmDelete", arg |-> id]
    /\ toast' = NoToast
    /\ UNCHANGED <<page, blogs, loading, searchTerm, filterStatus, loads, deletes,
                   overtaken, formVars>>

\* AlertDialogCancel: onOpenChange(false).
CancelDelete ==
    /\ page = "list"
    /\ deleteDialogOpen
    /\ deleteDialogOpen' = FALSE
    /\ ev' = [op |-> "cancelDelete", arg |-> Null]
    /\ toast' = NoToast
    /\ UNCHANGED <<page, blogs, loading, searchTerm, filterStatus, blogToDelete,
                   loads, deletes, overtaken, formVars>>

\* AlertDialogAction: the dialog closes (onOpenChange) and handleDelete runs up
\* to its await, the DELETE request for the id it closed over.
HandleDelete ==
    /\ page = "list"
    /\ deleteDialogOpen
    /\ deleteDialogOpen' = FALSE
    /\ IF blogToDelete = Null
         THEN UNCHANGED deletes
         ELSE /\ Len(loads) + Len(deletes) < MaxRequests
              /\ deletes' = Append(deletes, blogToDelete)
    /\ ev' = [op |-> "handleDelete", arg |-> blogToDelete]
    /\ toast' = NoToast
    /\ UNCHANGED <<page, blogs, loading, searchTerm, filterStatus, blogToDelete,
                   loads, overtaken, formVars>>

\* FilterOut had the filter tested === instead of !==.
FilterOutKeepsTarget(prev, id) == SelectSeq(prev, LAMBDA b : b = id)

\* prev.filter((blog) => blog._id !== blogToDelete)
RECURSIVE FilterOut(_, _)
FilterOut(prev, id) ==
    IF prev = <<>> THEN <<>>
    ELSE IF Head(prev) # id
           THEN <<Head(prev)>> \o FilterOut(Tail(prev), id)
           ELSE FilterOut(Tail(prev), id)

\* The response of delete i arrives: the functional setBlogs update and the
\* success toast on a 2xx response, the error toast otherwise; the finally
\* block closes the dialog and clears blogToDelete.
DeleteResponse(i, ok) ==
    /\ page = "list"
    /\ i \in 1..Len(deletes)
    /\ deletes' = RemoveAt(deletes, i)
    /\ blogs' = IF ok THEN FilterOut(blogs, deletes[i]) ELSE blogs
    /\ toast' = IF ok THEN "Blog deleted successfully"
                      ELSE "Failed to delete blog. Please try again."
    /\ deleteDialogOpen' = FALSE
    /\ blogToDelete' = Null
    /\ ev' = [op |-> IF ok THEN "deleteOk" ELSE "deleteFailed", arg |-> deletes[i]]
    /\ UNCHANGED <<page, loading, searchTerm, filterStatus, loads, overtaken, formVars>>

(***************************************************************************)
(* EditBlogPage: strings                                                   *)
(***************************************************************************)
UpperCase == <<"A", "B", "C", "D", "E", "F", "G", "H", "I", "J", "K", "L", "M",
               "N", "O", "P", "Q", "R", "S", "T", "U", "V", "W", "X", "Y", "Z">>
LowerCase == <<"a", "b", "c", "d", "e", "f", "g", "h", "i", "j", "k", "l", "m",
               "n", "o", "p", "q", "r", "s", "t", "u", "v", "w", "x", "y", "z">>
Digits == {"0", "1", "2", "3", "4", "5", "6", "7", "8", "9"}

\* The character class [a-z0-9] of both regular expressions.
IsLowerAlnum(c) == c \in Range(LowerCase) \cup Digits

\* String.prototype.toLowerCase, one character.
ToLowerChar(c) ==
    IF c \in Range(UpperCase)
      THEN LowerCase[CHOOSE i \in 1..Len(UpperCase) : UpperCase[i] = c]
      ELSE c

ToLowerCase(s) == [i \in 1..Len(s) |-> ToLowerChar(s[i])]

\* The rest of s after its leading characters outside [a-z0-9].
RECURSIVE SkipNonAlnum(_)
SkipNonAlnum(s) ==
    IF s = <<>> \/ IsLowerAlnum(Head(s)) THEN s ELSE SkipNonAlnum(Tail(s))

\* .replace(/[^a-z0-9]+/g, '-'): each maximal run outside [a-z0-9] becomes one hyphen.
RECURSIVE ReplaceNonAlnumRuns(_)
ReplaceNonAlnumRuns(s) ==
    IF s = <<>> THEN <<>>
    ELSE IF IsLowerAlnum(Head(s))
           THEN <<Head(s)>> \o ReplaceNonAlnumRuns(Tail(s))
           ELSE <<"-">> \o ReplaceNonAlnumRuns(SkipNonAlnum(Tail(s)))

\* .replace(/(^-|-$)/g, ''): a hyphen at the start and a hyphen at the end are removed.
StripEdgeHyphens(s) ==
    LET a == IF s # <<>> /\ Head(s) = "-" THEN Tail(s) ELSE s
    IN  IF a # <<>> /\ a[Len(a)] = "-" THEN SubSeq(a, 1, Len(a) - 1) ELSE a

\* title.toLowerCase().replace(/[^a-z0-9]+/g, '-').replace(/(^-|-$)/g, '')
DeriveSlug(t) == StripEdgeHyphens(ReplaceNonAlnumRuns(ToLowerCase(t)))

\* /^[a-z0-9]+(?:-[a-z0-9]+)*$/ as a scan: st is "start" before the first
\* character, "word" after one of [a-z0-9], "hyphen" after a hyphen.
RECURSIVE SlugScan(_, _)
SlugScan(s, st) ==
    IF s = <<>> THEN st = "word"
    ELSE IF IsLowerAlnum(Head(s)) THEN SlugScan(Tail(s), "word")
    ELSE IF Head(s) = "-" /\ st = "word" THEN SlugScan(Tail(s), "hyphen")
    ELSE FALSE

SlugRegexTest(s) == SlugScan(s, "start")

\* Minimum lengths of blogSchema.
TitleMin == 5
SlugMin == 5
ExcerptMin == 10
CoverImageMin == 1

\* blogSchema without the .regex(...) refinement of slug.
blogSchemaNoRegex(v) ==
    /\ Len(v.title) >= TitleMin
    /\ Len(v.slug) >= SlugMin
    /\ Len(v.excerpt) >= ExcerptMin
    /\ Len(v.coverImage) >= CoverImageMin
    /\ v.status \in {"draft", "published"}

\* blogSchema.safeParse(values).success; content is z.any().
blogSchema(v) ==
    /\ Len(v.title) >= TitleMin
    /\ Len(v.slug) >= SlugMin
    /\ SlugRegexTest(v.slug)
    /\ Len(v.excerpt) >= ExcerptMin
    /\ Len(v.coverImage) >= CoverImageMin
    /\ v.status \in {"draft", "published"}

Rep(c, n) == [i \in 1..n |-> c]

\* Values the user may enter.
TitleInputs ==
    { <<>>,
      <<"A">>,
      <<"A", "b">>,
      <<"A", "b", " ", "c", "d">>,
      <<"A", "b", " ", " ", "c", "d", "!">> }
SlugInputs ==
    { <<>>,
      <<"a", "b">>,
      <<"a", "b", "-", "c", "d">>,
      <<"a", "b", "c", "d", "-">>,
      <<"a", "b", "-", "-", "c">>,
      <<"A", "b", "-", "c", "d">> }
ExcerptInputs == {Rep("x", ExcerptMin - 1), Rep("x", ExcerptMin)}
CoverImageInputs == {<<>>, <<"u">>}
ContentInputs == {"<p>x</p>"}

\* What a PUT /api/blogs request may end in.
PutOutcomes == {"ok", "serverError", "serverNoMessage", "unparsable", "transport"}
ServerMessage == "Slug already exists"
GenericMessage == "Failed to update blog"

(***************************************************************************)
(* EditBlogPage                                                            *)
(***************************************************************************)

\* useState(false) and the defaultValues of useForm.
FormInitial ==
    /\ isSubmitting = FALSE
    /\ title = <<>>
    /\ slug = <<>>
    /\ excerpt = <<>>
    /\ content = "{}"
    /\ coverImage = <<>>
    /\ status = "draft"
    /\ slugTimers = 0
    /\ puts = <<>>
    /\ slugTyped = FALSE
    /\ everDiverged = FALSE

\* EditBlogPage unmounts: its state and its pending timers are gone.
UnmountForm ==
    /\ isSubmitting' = FALSE
    /\ title' = <<>>
    /\ slug' = <<>>
    /\ excerpt' = <<>>
    /\ content' = "{}"
    /\ coverImage' = <<>>
    /\ status' = "draft"
    /\ slugTimers' = 0
    /\ puts' = <<>>
    /\ slugTyped' = FALSE
    /\ everDiverged' = FALSE

\* The test of the title onChange handler, made after field.onChange(e): the
\* slug is empty or equals the value derived from the title just entered.
SlugFollowsTitle(t, sl) == sl = <<>> \/ sl = DeriveSlug(t)

\* onChange of the title Input: field.onChange(e), then the timer when the test passes.
ChangeTitle(t) ==
    /\ page = "edit"
    /\ ~isSubmitting
    /\ t # title
    /\ title' = t
    /\ IF SlugFollowsTitle(t, slug)
         THEN /\ slugTimers < MaxTimers
              /\ slugTimers' = slugTimers + 1
         ELSE UNCHANGED slugTimers
    /\ ev' = [op |-> "changeTitle", arg |-> t]
    /\ toast' = NoToast
    /\ UNCHANGED <<page, listVars, isSubmitting, slug, excerpt, content, coverImage,
                   status, puts, slugTyped, everDiverged>>

\* The slug generateSlug leaves in the form: unchanged when the title is empty.
generateSlug(t, sl) == IF t = <<>> THEN sl ELSE DeriveSlug(t)

\* A pending setTimeout(generateSlug, 300) callback runs.
SlugTimerFires ==
    /\ page = "edit"
    /\ slugTimers > 0
    /\ slugTimers' = slugTimers - 1
    /\ slug' = generateSlug(title, slug)
    /\ slugTyped' = (slugTyped /\ slug' = slug)
    /\ ev' = [op |-> "slugTimer", arg |-> title]
    /\ toast' = NoToast
    /\ UNCHANGED <<page, listVars, isSubmitting, title, excerpt, content, coverImage,
                   status, puts, everDiverged>>

\* The Generate button (disabled without a title or while submitting).
ClickGenerate ==
    /\ page = "edit"
    /\ ~isSubmitting
    /\ title # <<>>
    /\ slug' = generateSlug(title, slug)
    /\ slugTyped' = FALSE
    /\ ev' = [op |-> "clickGenerate", arg |-> title]
    /\ toast' = NoToast
    /\ UNCHANGED <<page, listVars, isSubmitting, title, excerpt, content, coverImage,
                   status, slugTimers, puts, everDiverged>>

\* onChange of the slug Input ({...field}).
ChangeSlug(s) ==
    /\ page = "edit"
    /\ ~isSubmitting
    /\ s # slug
    /\ slug' = s
    /\ slugTyped' = (s # <<>> /\ s # DeriveSlug(title))
    /\ everDiverged' = (everDiverged \/ s # DeriveSlug(title))
    /\ ev' = [op |-> "changeSlug", arg |-> s]
    /\ toast' = NoToast
    /\ UNCHANGED <<page, listVars, isSubmitting, title, excerpt, content, coverImage,
                   status, slugTimers, puts>>

\* onChange of the excerpt Textarea.
ChangeExcerpt(e) ==
    /\ page = "edit"
    /\ ~isSubmitting
    /\ e # excerpt
    /\ excerpt' = e
    /\ ev' = [op |-> "changeExcerpt", arg |-> e]
    /\ toast' = NoToast
    /\ UNCHANGED <<page, listVars, isSubmitting, title, slug, content, coverImage,
                   status, slugTimers, puts, slugTyped, everDiverged>>

\* handleCoverImageUpload(url), the onChange of ImageUpload.
handleCoverImageUpload(url) ==
    /\ page = "edit"
    /\ ~isSubmitting
    /\ url # coverImage
    /\ coverImage' = url
    /\ ev' = [op |-> "handleCoverImageUpload", arg |-> url]
    /\ toast' = NoToast
    /\ UNCHANGED <<page, listVars, isSubmitting, title, slug, excerpt, content,
                   status, slugTimers, puts, slugTyped, everDiverged>>

\* onEditorChange of TinyEditor (the editor takes no disabled prop).
ChangeContent(c) ==
    /\ page = "edit"
    /\ c # content
    /\ content' = c
    /\ ev' = [op |-> "changeContent", arg |-> c]
    /\ toast' = NoToast
    /\ UNCHANGED <<page, listVars, isSubmitting, title, slug, excerpt, coverImage,
                   status, slugTimers, puts, slugTyped, everDiverged>>

\* form.getValues() once the status field holds st.
FormValues(st) ==
    [title |-> title, slug |-> slug, excerpt |-> excerpt, content |-> content,
     coverImage |-> coverImage, status |-> st]

\* form.handleSubmit(onSubmit)() on values v: the resolver validates them and,
\* when they pass, onSubmit runs up to its await: setIsSubmitting(true) and
\* the PUT request with JSON.stringify(data).
handleSubmit(v) ==
    IF blogSchema(v)
      THEN /\ Len(puts) < MaxPuts
           /\ isSubmitting' = TRUE
           /\ puts' = Append(puts, v)
      ELSE UNCHANGED <<isSubmitting, puts>>

\* UpdateDraft without disabled={isSubmitting} on the button.
UpdateDraftNotDisabled ==
    /\ page = "edit"
    /\ status' = "draft"
    /\ handleSubmit(FormValues("draft"))
    /\ ev' = [op |-> "updateDraft", arg |-> "draft"]
    /\ toast' = NoToast
    /\ UNCHANGED <<page, listVars, title, slug, excerpt, content, coverImage,
                   slugTimers, slugTyped, everDiverged>>

\* The Update Draft button.
UpdateDraft ==
    /\ page = "edit"
    /\ ~isSubmitting
    /\ status' = "draft"
    /\ handleSubmit(FormValues("draft"))
    /\ ev' = [op |-> "updateDraft", arg |-> "draft"]
    /\ toast' = NoToast
    /\ UNCHANGED <<page, listVars, title, slug, excerpt, content, coverImage,
                   slugTimers, slugTyped, everDiverged>>

\* UpdatePublish had it submitted the values read before setValue('status', ...).
UpdatePublishStaleStatus ==
    /\ page = "edit"
    /\ ~isSubmitting
    /\ status' = "published"
    /\ handleSubmit(FormValues(status))
    /\ ev' = [op |-> "updatePublish", arg |-> "published"]
    /\ toast' = NoToast
    /\ UNCHANGED <<page, listVars, title, slug, excerpt, content, coverImage,
                   slugTimers, slugTyped, everDiverged>>

\* The Update & Publish button.
UpdatePublish ==
    /\ page = "edit"
    /\ ~isSubmitting
    /\ status' = "published"
    /\ handleSubmit(FormValues("published"))
    /\ ev' = [op |-> "updatePublish", arg |-> "published"]
    /\ toast' = NoToast
    /\ UNCHANGED <<page, listVars, title, slug, excerpt, content, coverImage,
                   slugTimers, slugTyped, everDiverged>>

\* The description of the toast onSubmit raises for an outcome of the request
\* whose body was data.
SubmitToast(outcome, data) ==
    CASE outcome = "ok" ->
           IF data.status = "published"
             THEN "Blog updated & published successfully"
             ELSE "Blog updated as draft successfully"
      [] outcome = "serverError" -> ServerMessage
      [] outcome = "serverNoMessage" -> GenericMessage
      [] outcome = "unparsable" -> "Unexpected token < in JSON at position 0"
      [] outcome = "transport" -> "Failed to fetch"

\* PutResponse had setIsSubmitting(false) been left out of the failure path.
PutResponseNoFinally(i, outcome) ==
    /\ page = "edit"
    /\ i \in 1..Len(puts)
    /\ toast' = SubmitToast(outcome, puts[i])
    /\ ev' = [op |-> IF outcome = "ok" THEN "putOk" ELSE "putFailed", arg |-> outcome]
    /\ IF outcome = "ok"
         THEN /\ page' = "list"
              /\ UnmountForm
              /\ MountList
         ELSE /\ puts' = RemoveAt(puts, i)
              /\ UNCHANGED <<page, listVars, isSubmitting, title, slug, excerpt, content,
                             coverImage, status, slugTimers, slugTyped, everDiverged>>

\* The response of submission i arrives.  ok: the success toast and
\* router.push('/dashboard/blogs'), which unmounts the form and mounts the
\* listing view.  Otherwise the error toast; setIsSubmitting(false) in the
\* finally block either way.
PutResponse(i, outcome) ==
    /\ page = "edit"
    /\ i \in 1..Len(puts)
    /\ toast' = SubmitToast(outcome, puts[i])
    /\ ev' = [op |-> IF outcome = "ok" THEN "putOk" ELSE "putFailed", arg |-> outcome]
    /\ IF outcome = "ok"
         THEN /\ page' = "list"
              /\ UnmountForm
              /\ MountList
         ELSE /\ isSubmitting' = FALSE
              /\ puts' = RemoveAt(puts, i)
              /\ UNCHANGED <<page, listVars, title, slug, excerpt, content, coverImage,
                             status, slugTimers, slugTyped, everDiverged>>

(***************************************************************************)
(* The application                                                         *)
(***************************************************************************)
Init ==
    /\ page \in {"list", "edit"}
    /\ ev = [op |-> "mount", arg |-> page]
    /\ toast = NoToast
    /\ FormInitial
    /\ IF page = "list" THEN ListMounted ELSE ListUnmounted

Next ==
    \/ \E term \in SearchInputs : SetSearchTerm(term)
    \/ HandleSearch
    \/ \E st \in StatusMenu : SetFilterStatus(st)
    \/ ClearFilters
    \/ \E i \in 1..Len(loads), resp \in BlogLists : FetchResponse(i, TRUE, resp)
    \/ \E i \in 1..Len(loads) : FetchResponse(i, FALSE, <<>>)
    \/ \E id \in Ids : ConfirmDelete(id)
    \/ CancelDelete
    \/ HandleDelete
    \/ \E i \in 1..Len(deletes), ok \in BOOLEAN : DeleteResponse(i, ok)
    \/ \E t \in TitleInputs : ChangeTitle(t)
    \/ SlugTimerFires
    \/ ClickGenerate
    \/ \E s \in SlugInputs : ChangeSlug(s)
    \/ \E e \in ExcerptInputs : ChangeExcerpt(e)
    \/ \E url \in CoverImageInputs : handleCoverImageUpload(url)
    \/ \E c \in ContentInputs : ChangeContent(c)
    \/ UpdateDraft
    \/ UpdatePublish
    \/ \E i \in 1..Len(puts), outcome \in PutOutcomes : PutResponse(i, outcome)

Spec == Init /\ [][Next]_vars

(***************************************************************************)
(* Properties                                                              *)
(***************************************************************************)
DeleteFailedText == "Failed to delete blog. Please try again."
LoadFailedText == "Failed to load blogs. Please try again."
Last(s) == s[Len(s)]

\* C1: a successful delete of id X leaves exactly the previous collection
\* without the item X, the others in their order; a failed delete leaves the
\* collection as it was and raises the failure notification; no step but a
\* successful delete or a successful load (or the mount) changes the
\* collection, so issuing the request removes nothing.
C1_DeleteRemovesExactlyTarget ==
    [][ /\ ev'.op = "deleteOk"
            => blogs' = SelectSeq(blogs, LAMBDA b : b # ev'.arg)
        /\ ev'.op = "deleteFailed"
            => (blogs' = blogs /\ toast' = DeleteFailedText)
        /\ ev'.op \notin {"deleteOk", "fetchOk", "putOk"}
            => blogs' = blogs ]_vars

\* A successful delete has removed its target and kept another item.
C1_Witness ==
    /\ ev.op = "deleteOk"
    /\ ev.arg \notin Range(blogs)
    /\ blogs # <<>>

\* C2: the step that completes a load sets loading to false, on success and
\* on failure; on success the collection becomes the response's blogs; on
\* failure the collection is unchanged and the failure notification is
\* raised; and loading is true only while a load is in flight, so once every
\* load that started has completed the flag is false.
C2_LoadCompletion ==
    [][ /\ ev'.op = "fetchOk"
            => (loading' = FALSE /\ blogs' = ev'.arg)
        /\ ev'.op = "fetchFailed"
            => (loading' = FALSE /\ blogs' = blogs /\ toast' = LoadFailedText)
        /\ (page' = "list" /\ loads' = <<>>) => ~loading' ]_vars

\* A load failed while the collection was not empty, and loading is cleared.
C2_Witness ==
    /\ ev.op = "fetchFailed"
    /\ ~loading
    /\ blogs # <<>>
    /\ toast = LoadFailedText

\* C3 (as claimed): while the user has never typed a slug that differs from
\* the derived value, once no delayed generation is pending the slug is the
\* value derived from the title (read here for a title that is not empty).
C3_SlugFollowsTitle ==
    (page = "edit" /\ ~everDiverged /\ slugTimers = 0 /\ title # <<>>)
        => slug = DeriveSlug(title)

\* C4 (as claimed): while the slug holds a value the user typed that differed
\* from the derived one, neither a title edit nor a delayed generation
\* changes it.
C4_TypedSlugKept ==
    [][ (slugTyped /\ ev'.op \in {"changeTitle", "slugTimer"}) => slug' = slug ]_vars

\* C5 (as claimed): never two loads, two submissions or two deletes in flight.
C5_OneRequestOfEachKind ==
    /\ Len(loads) <= 1
    /\ Len(puts) <= 1
    /\ Len(deletes) <= 1

\* C5 (amended): never two form submissions in flight.
C5_OneSubmission == Len(puts) <= 1

\* A submission is in flight.
C5_Witness == page = "edit" /\ isSubmitting /\ Len(puts) = 1

FormFields == <<title, slug, excerpt, content, coverImage, status>>
SubmitFailureTexts ==
    {ServerMessage, GenericMessage, "Unexpected token < in JSON at position 0",
     "Failed to fetch"}

\* C6: the flag is set exactly by the step that issues the PUT request and is
\* cleared by the step that completes it, whatever the outcome; no request is
\* issued by a completion (no retry); while the flag is set neither button
\* acts; the view changes to the listing only on success; on failure the view
\* and the field values stay and an error notification is raised, the
\* server's message when it gave one.
C6_SubmissionLifecycle ==
    [][ /\ (Len(puts') > Len(puts)) <=> (~isSubmitting /\ isSubmitting')
        /\ ev'.op \in {"putOk", "putFailed"}
            => (isSubmitting /\ ~isSubmitting' /\ puts' = <<>>)
        /\ isSubmitting => ev'.op \notin {"updateDraft", "updatePublish"}
        /\ (page = "edit" /\ page' = "list") <=> ev'.op = "putOk"
        /\ ev'.op = "putFailed"
            => /\ page' = "edit"
               /\ FormFields' = FormFields
               /\ toast' \in SubmitFailureTexts
               /\ ev'.arg = "serverError" => toast' = ServerMessage
               /\ ev'.arg = "serverNoMessage" => toast' = GenericMessage ]_vars

\* A submission failed with the server's message and the form is idle again,
\* its valid values in place.
C6_Witness ==
    /\ ev.op = "putFailed"
    /\ toast = ServerMessage
    /\ page = "edit"
    /\ ~isSubmitting
    /\ Len(title) >= TitleMin

\* Lowercase alphanumeric segments separated by single hyphens.
SegmentedSlug(s) ==
    /\ s # <<>>
    /\ \A i \in 1..Len(s) : IsLowerAlnum(s[i]) \/ s[i] = "-"
    /\ s[1] # "-"
    /\ s[Len(s)] # "-"
    /\ \A i \in 1..(Len(s) - 1) : ~(s[i] = "-" /\ s[i + 1] = "-")

ViolatesSchema ==
    \/ Len(title) < TitleMin
    \/ Len(slug) < SlugMin
    \/ ~SegmentedSlug(slug)
    \/ Len(excerpt) < ExcerptMin
    \/ coverImage = <<>>

\* C7: when a field violates the schema, neither button issues a PUT
\* request, the flag stays false and the view stays.
C7_ValidationBlocksSubmit ==
    [][ (ev'.op \in {"updateDraft", "updatePublish"} /\ ViolatesSchema)
            => (puts' = puts /\ ~isSubmitting' /\ page' = page) ]_vars

\* Publish was clicked on a form whose only violation is the shape of the
\* slug, and nothing was sent.
C7_Witness ==
    /\ ev.op = "updatePublish"
    /\ Len(title) >= TitleMin
    /\ Len(slug) >= SlugMin
    /\ ~SegmentedSlug(slug)
    /\ Len(excerpt) >= ExcerptMin
    /\ coverImage # <<>>
    /\ puts = <<>>
    /\ ~isSubmitting

\* C8: the body sent by either button is the form's contents at the click with
\* status replaced, by draft for the first and by published for the second.
C8_PayloadsDifferInStatusOnly ==
    [][ /\ (ev'.op = "updateDraft" /\ Len(puts') > Len(puts))
            => Last(puts') = [title |-> title, slug |-> slug, excerpt |-> excerpt,
                              content |-> content, coverImage |-> coverImage,
                              status |-> "draft"]
        /\ (ev'.op = "updatePublish" /\ Len(puts') > Len(puts))
            => Last(puts') = [title |-> title, slug |-> slug, excerpt |-> excerpt,
                              content |-> content, coverImage |-> coverImage,
                              status |-> "published"] ]_vars

\* Publish sent a body from a form whose status field held draft before.
C8_Witness ==
    /\ ev.op = "updatePublish"
    /\ Len(puts) = 1
    /\ puts[1].status = "published"
    /\ puts[1].content # "{}"

\* C9: on the mounted listing view a load is issued only by a step that
\* changes the status filter or by the search action, each change of the
\* status filter and each search action issues one, carrying the search term
\* and status then held; mounting issues the first; a change of the search
\* term issues none.
C9_LoadTriggers ==
    [][ /\ (page = "list" /\ Len(loads') > Len(loads))
            => (filterStatus' # filterStatus \/ ev'.op = "handleSearch")
        /\ (page = "list" /\ (filterStatus' # filterStatus \/ ev'.op = "handleSearch"))
            => loads' = Append(loads, [search |-> searchTerm', status |-> filterStatus'])
        /\ (page = "edit" /\ page' = "list")
            => loads' = <<[search |-> "", status |-> Null]>>
        /\ ev'.op = "setSearchTerm"
            => (searchTerm' # searchTerm /\ loads' = loads /\ loading' = loading) ]_vars

\* The search term was changed with no load in flight, and none was issued.
C9_Witness ==
    /\ ev.op = "setSearchTerm"
    /\ searchTerm = "q"
    /\ loads = <<>>
    /\ ~loading

\* C10: clearFilters empties the search term and unsets the status filter;
\* one load follows (for the cleared filters) exactly when the status filter
\* was set; otherwise no request is issued; the collection is unchanged
\* either way.
C10_ClearFilters ==
    [][ ev'.op = "clearFilters"
            => /\ searchTerm' = ""
               /\ filterStatus' = Null
               /\ blogs' = blogs
               /\ filterStatus # Null
                    => loads' = Append(loads, [search |-> "", status |-> Null])
               /\ filterStatus = Null
                    => (loads' = loads /\ loading' = loading) ]_vars

\* A clear with only the search term set: nothing in flight, the collection shown.
C10_Witness ==
    /\ ev.op = "clearFilters"
    /\ loads = <<>>
    /\ ~loading
    /\ blogs # <<>>

(***************************************************************************)
(* The slug rule of blogSchema on its own                                  *)
(***************************************************************************)
MaxSlugLen == 5    \* length of the slugs tried character by character

SlugChars == {"a", "1", "-", "A", " "}

\* The slugs the spec names: my-post-123, abc12, My Post, -leading, trailing-, ab.
SlugExamples ==
    { <<"m", "y", "-", "p", "o", "s", "t", "-", "1", "2", "3">>,
      <<"a", "b", "c", "1", "2">>,
      <<"M", "y", " ", "P", "o", "s", "t">>,
      <<"-", "l", "e", "a", "d", "i", "n", "g">>,
      <<"t", "r", "a", "i", "l", "i", "n", "g", "-">>,
      <<"a", "b">> }

SlugCandidates ==
    UNION {[1..n -> SlugChars] : n \in 0..MaxSlugLen} \cup SlugExamples

\* The slug rule had its pattern been the character class alone, /^[a-z0-9-]+$/.
slugSchemaCharClassOnly(s) ==
    /\ Len(s) >= SlugMin
    /\ \A i \in 1..Len(s) : IsLowerAlnum(s[i]) \/ s[i] = "-"

\* z.string().min(5).regex(/^[a-z0-9]+(?:-[a-z0-9]+)*$/) applied to s.
slugSchema(s) ==
    /\ Len(s) >= SlugMin
    /\ SlugRegexTest(s)

\* The form holds a slug that has not been validated yet.
SlugInit ==
    /\ page = "edit"
    /\ ev = [op |-> "slugEntered", arg |-> FALSE]
    /\ toast = NoToast
    /\ ListUnmounted
    /\ isSubmitting = FALSE
    /\ title = <<>>
    /\ slug \in SlugCandidates
    /\ excerpt = <<>>
    /\ content = "{}"
    /\ coverImage = <<>>
    /\ status = "draft"
    /\ slugTimers = 0
    /\ puts = <<>>
    /\ slugTyped = FALSE
    /\ everDiverged = FALSE

\* The resolver validates the slug field; arg is whether it was accepted.
ValidateSlug ==
    /\ ev.op = "slugEntered"
    /\ ev' = [op |-> "slugValidated", arg |-> slugSchema(slug)]
    /\ UNCHANGED <<page, toast, listVars, formVars>>

SlugNext == ValidateSlug

SlugSpec == SlugInit /\ [][SlugNext]_vars

Str_my_post_123 == <<"m", "y", "-", "p", "o", "s", "t", "-", "1", "2", "3">>
Str_abc12 == <<"a", "b", "c", "1", "2">>
Str_My_Post == <<"M", "y", " ", "P", "o", "s", "t">>
Str_leading == <<"-", "l", "e", "a", "d", "i", "n", "g">>
Str_trailing == <<"t", "r", "a", "i", "l", "i", "n", "g", "-">>
Str_ab == <<"a", "b">>

\* C11: slug validation accepts a string exactly when it has at least 5
\* characters and is made of non-empty lowercase-alphanumeric segments
\* separated by single hyphens; it accepts my-post-123 and abc12 and rejects
\* My Post, -leading, trailing- and ab.
C11_SlugValidation ==
    ev.op = "slugValidated"
        => /\ ev.arg = (Len(slug) >= 5 /\ SegmentedSlug(slug))
           /\ slug \in {Str_my_post_123, Str_abc12} => ev.arg = TRUE
           /\ slug \in {Str_My_Post, Str_leading, Str_trailing, Str_ab} => ev.arg = FALSE

\* A string of segments with the character class only and of enough length,
\* rejected for its leading hyphen.
C11_Witness ==
    /\ ev.op = "slugValidated"
    /\ slug = Str_leading
    /\ ev.arg = FALSE

\* C12 (as claimed): qualifying title keystrokes that arrive before the
\* pending generation has run are coalesced into it, so at most one delayed
\* generation is pending at any time.
C12_KeystrokesCoalesced == page = "edit" => slugTimers <= 1

\* C13: a load in flight is never cancelled: it leaves flight only when its own
\* response arrives.  Responses are applied in order of arrival: the successful
\* response of a load issued before one that has already been answered still
\* replaces the held collection with what it carries, and so does a successful
\* load response that arrives right after a successful delete.
C13_LateResponseOverwrites ==
    [][ /\ (page = "list" /\ loads' # loads /\ Len(loads') <= Len(loads))
            => /\ ev'.op \in {"fetchOk", "fetchFailed"}
               /\ \E i \in 1..Len(loads) :
                      loads' = RemoveAt(loads, i) /\ ev'.query = loads[i]
        /\ (ev'.op = "fetchOk" /\ ev'.late) => blogs' = ev'.arg
        /\ (ev.op = "deleteOk" /\ ev'.op = "fetchOk") => blogs' = ev'.arg ]_vars

\* A search for "q" was followed by a status-filter change, the second load
\* was answered first, and the collection held is the answer to the search:
\* not the answer to the query the filters now describe.
C13_Witness ==
    /\ ev.op = "fetchOk"
    /\ ev.late
    /\ ev.query = [search |-> "q", status |-> Null]
    /\ searchTerm = "q"
    /\ filterStatus # Null
    /\ loads = <<>>
    /\ blogs = ev.arg
    /\ blogs # <<>>

====
